---- MODULE Spec2Model ----
(***************************************************************************)
(* Model of internal/api/handlers/metrics/handler.go: Handler.GetMetrics,  *)
(* the handler of the /_qs/metrics endpoint.                               *)
(*                                                                         *)
(* Time.  An instant is an integer number of quarter hours since the zero  *)
(* time.Time (0001-01-01T00:00:00Z), so Hour = 4.  A time.Time value is a  *)
(* record [inst, loc]: the instant and the identity of its *Location.  Two *)
(* locations may carry the same offset and still be different pointers,    *)
(* which matters where a time.Time is a map key (Go compares the struct).  *)
(* Timestamps carry no monotonic clock reading: Before/After compare       *)
(* the wall instants.                                                      *)
(*                                                                         *)
(* Strings.  A Go string is a sequence of numbers compared as Go compares  *)
(* strings: element by element, a proper prefix first.  A model name is    *)
(* the sequence of its bytes.  An RFC 3339 timestamp is the sequence of    *)
(* its fixed-width fields <<day, hour, minute>> followed by the zone       *)
(* suffix: <<90>> for "Z", <<43, hh, mm>> for "+hh:mm", <<45, hh, mm>>     *)
(* for "-hh:mm" (90, 43, 45 are the bytes 'Z', '+', '-').  The fields are  *)
(* zero padded in the real format, so comparing their values is comparing  *)
(* their digits.  Seconds are always zero at this granularity and are left *)
(* out of the sequence.                                                    *)
(***************************************************************************)
EXTENDS Integers, Sequences, FiniteSets, TLC

\* time.Hour, in quarter hours
Hour == 4

Day == 24 * Hour

\* the largest number of usage details in a snapshot
MaxDetails == 3

At(day, hh, quarter) == day * Day + hh * Hour + quarter

(***************************************************************************)
(* Go strings                                                              *)
(***************************************************************************)
EmptyString == <<>>

\* the Go operator < on strings
RECURSIVE StrLess(_, _)
StrLess(a, b) ==
    IF b = <<>> THEN FALSE
    ELSE IF a = <<>> THEN TRUE
    ELSE IF Head(a) # Head(b) THEN Head(a) < Head(b)
    ELSE StrLess(Tail(a), Tail(b))

\* model names, as bytes: "claude", "gpt", "GPT"
claude == <<99, 108, 97, 117, 100, 101>>
gpt == <<103, 112, 116>>
GPT == <<71, 80, 84>>

(***************************************************************************)
(* time.Time                                                               *)
(***************************************************************************)
\* The locations a timestamp may carry and the offset of each, in quarter
\* hours.  "UTC" is time.UTC; "GMT" is another location of offset 0 (a named
\* fixed zone, or time.Local on a host at offset 0); "CET" is +01:00; "ISTa"
\* and "ISTb" are two fixed zones of +05:30, as two calls of time.Parse make.
Locations == {"UTC", "GMT", "CET", "ISTa", "ISTb"}

LocOffset(loc) ==
    CASE loc = "UTC" -> 0
      [] loc = "GMT" -> 0
      [] loc = "CET" -> Hour
      [] loc = "ISTa" -> 5 * Hour + 2
      [] loc = "ISTb" -> 5 * Hour + 2

\* the zero time.Time: var fromTime, toTime time.Time
ZeroTime == [inst |-> 0, loc |-> "UTC"]

IsZero(t) == t.inst = 0

Before(t, u) == t.inst < u.inst

After(t, u) == t.inst > u.inst

Add(t, d) == [inst |-> t.inst + d, loc |-> t.loc]

\* Time.Truncate(d): rounds down to a multiple of d since the zero time, as an
\* absolute duration; the location is kept.
Truncate(t, d) == [inst |-> t.inst - (t.inst % d), loc |-> t.loc]

\* the zone suffix of layout "Z07:00"
ZoneSuffix(off) ==
    IF off = 0 THEN <<90>>
    ELSE IF off > 0 THEN <<43, off \div Hour, 15 * (off % Hour)>>
    ELSE <<45, (0 - off) \div Hour, 15 * ((0 - off) % Hour)>>

\* Time.Format(time.RFC3339): the wall clock in the time's own location
FormatRFC3339(t) ==
    LET local == t.inst + LocOffset(t.loc)
    IN  <<local \div Day, (local % Day) \div Hour, 15 * (local % Hour)>>
            \o ZoneSuffix(LocOffset(t.loc))

\* time.Parse(time.RFC3339, s) returns a nil error
ParseOK(s) ==
    /\ Len(s) \in {4, 6}
    /\ s[1] >= 0
    /\ s[2] \in 0..23
    /\ s[3] \in 0..59
    /\ Len(s) = 4 => s[4] = 90
    /\ Len(s) = 6 => (s[4] \in {43, 45} /\ s[5] \in 0..23 /\ s[6] \in 0..59)

\* the time time.Parse(time.RFC3339, s) returns when the error is nil; only its
\* instant is read by the handler
ParseRFC3339(s) ==
    LET wall == s[1] * Day + s[2] * Hour + (s[3] \div 15)
        off == IF Len(s) = 4 THEN 0
               ELSE IF s[4] = 43 THEN s[5] * Hour + (s[6] \div 15)
               ELSE 0 - (s[5] * Hour + (s[6] \div 15))
    IN  [inst |-> wall - off, loc |-> "UTC"]

(***************************************************************************)
(* The usage snapshot: snapshot.APIs is a map from API (provider) name to  *)
(* an APISnapshot, whose Models is a map from model name to a              *)
(* ModelSnapshot, whose Details is a slice of request details, each with a *)
(* Timestamp and Tokens.TotalTokens.  A Go map is a function on the keys   *)
(* it holds.                                                               *)
(***************************************************************************)
\* The request details a snapshot is drawn from: any MaxDetails of them.
Pool ==
    << [api |-> "P1", model |-> gpt,
        Timestamp |-> [inst |-> At(2, 10, 1), loc |-> "UTC"], TotalTokens |-> 100],
       [api |-> "P1", model |-> gpt,
        Timestamp |-> [inst |-> At(2, 10, 3), loc |-> "UTC"], TotalTokens |-> 50],
       [api |-> "P1", model |-> claude,
        Timestamp |-> [inst |-> At(2, 11, 0), loc |-> "UTC"], TotalTokens |-> 200],
       [api |-> "P2", model |-> gpt,
        Timestamp |-> [inst |-> At(2, 10, 2), loc |-> "GMT"], TotalTokens |-> 7],
       [api |-> "P2", model |-> claude,
        Timestamp |-> [inst |-> At(2, 10, 1), loc |-> "ISTa"], TotalTokens |-> 20],
       [api |-> "P2", model |-> gpt,
        Timestamp |-> [inst |-> At(2, 10, 3), loc |-> "ISTb"], TotalTokens |-> 30],
       [api |-> "P1", model |-> claude,
        Timestamp |-> [inst |-> At(1, 9, 0), loc |-> "UTC"], TotalTokens |-> 1],
       [api |-> "P2", model |-> claude,
        Timestamp |-> [inst |-> At(2, 10, 1), loc |-> "CET"], TotalTokens |-> 8] >>

\* the Details slice of model m of API p, holding the details S of the pool
DetailsOf(S, p, m) ==
    LET picked == SelectSeq([i \in 1..Len(Pool) |-> i],
                            LAMBDA i : i \in S /\ Pool[i].api = p /\ Pool[i].model = m)
    IN  [k \in 1..Len(picked) |->
            [Timestamp |-> Pool[picked[k]].Timestamp,
             TotalTokens |-> Pool[picked[k]].TotalTokens]]

\* the value of snapshot.APIs holding the details S of the pool
SnapshotOf(S) ==
    [p \in {Pool[i].api : i \in S} |->
        [m \in {Pool[i].model : i \in {j \in S : Pool[j].api = p}} |->
            DetailsOf(S, p, m)]]

Snapshots ==
    {SnapshotOf(S) : S \in {T \in SUBSET (1..Len(Pool)) : Cardinality(T) <= MaxDetails}}

\* the orders in which a range loop may visit the keys of a map
Perms(S) ==
    {s \in [1..Cardinality(S) -> S] :
        \A i, j \in 1..Cardinality(S) : i # j => s[i] # s[j]}

\* one order of the Models map of every API
ModelOrders(apis) ==
    {mo \in [DOMAIN apis -> UNION {Perms(DOMAIN apis[p]) : p \in DOMAIN apis}] :
        \A p \in DOMAIN apis : mo[p] \in Perms(DOMAIN apis[p])}

(***************************************************************************)
(* Handler.GetMetrics                                                      *)
(***************************************************************************)
VARIABLES
    snapshot,       \* what h.Stats.Snapshot() returns: snapshot.APIs
    pc,             \* "idle" before the request is handled, "done" after
    fromStr,        \* c.Query("from")
    toStr,          \* c.Query("to")
    modelFilter,    \* c.Query("model")
    now,            \* the clock: what time.Now() returns during the call
    status,         \* the HTTP status written by c.JSON, 0 before the call
    errorMsg,       \* the "error" of the body written with status 400
    resp,           \* <<resp>>, the MetricsResponse written with status 200, or <<>>
    parsed,         \* the parameters time.Parse was called on
    snapshotRead    \* whether h.Stats.Snapshot() was called

vars == <<snapshot, pc, fromStr, toStr, modelFilter, now, status, errorMsg, resp,
          parsed, snapshotRead>>

\* the values of the query parameters: absent, malformed, the zero time, and
\* times around the details of the pool ("not-a-date" has no zone at all)
NotADate == <<110, 111, 116>>

FromStrs ==
    {EmptyString, NotADate, <<0, 0, 0, 90>>, <<2, 10, 15, 90>>, <<2, 10, 30, 90>>,
     <<2, 15, 45, 43, 5, 30>>}

ToStrs ==
    {EmptyString, NotADate, <<0, 0, 0, 90>>, <<2, 10, 15, 90>>, <<2, 10, 45, 90>>,
     <<2, 11, 0, 90>>}

ModelFilters == {EmptyString, gpt, GPT}

Nows == {[inst |-> At(2, 11, 1), loc |-> "UTC"], [inst |-> At(3, 10, 2), loc |-> "UTC"]}

\* DefaultWindow with a window of 12 hours
DefaultWindowHalfDay(clock) == [fromTime |-> Add(clock, 0 - 12 * Hour), toTime |-> clock]

\* lines 61-64: the default window when no time range is given
DefaultWindow(clock) == [fromTime |-> Add(clock, 0 - 24 * Hour), toTime |-> clock]

\* Validate without the check of the error time.Parse returns for "to"
ValidateToUnchecked(f, t, clock) ==
    IF f = EmptyString /\ t = EmptyString
    THEN [ok |-> TRUE, error |-> "", parsed |-> {},
          fromTime |-> DefaultWindow(clock).fromTime,
          toTime |-> DefaultWindow(clock).toTime]
    ELSE IF f # EmptyString /\ ~ParseOK(f)
    THEN [ok |-> FALSE, error |-> "invalid 'from' timestamp format",
          parsed |-> {"from"}, fromTime |-> ZeroTime, toTime |-> ZeroTime]
    ELSE [ok |-> TRUE, error |-> "",
          parsed |-> (IF f # EmptyString THEN {"from"} ELSE {})
                        \cup (IF t # EmptyString THEN {"to"} ELSE {}),
          fromTime |-> IF f # EmptyString THEN ParseRFC3339(f) ELSE ZeroTime,
          toTime |-> IF t # EmptyString /\ ParseOK(t) THEN ParseRFC3339(t)
                     ELSE ZeroTime]

\* lines 58-80: the window, or the error; parsed is the parameters time.Parse
\* was called on before the handler went on or returned
Validate(f, t, clock) ==
    IF f = EmptyString /\ t = EmptyString
    THEN [ok |-> TRUE, error |-> "", parsed |-> {},
          fromTime |-> DefaultWindow(clock).fromTime,
          toTime |-> DefaultWindow(clock).toTime]
    ELSE IF f # EmptyString /\ ~ParseOK(f)
    THEN [ok |-> FALSE, error |-> "invalid 'from' timestamp format",
          parsed |-> {"from"}, fromTime |-> ZeroTime, toTime |-> ZeroTime]
    ELSE IF t # EmptyString /\ ~ParseOK(t)
    THEN [ok |-> FALSE, error |-> "invalid 'to' timestamp format",
          parsed |-> (IF f # EmptyString THEN {"from"} ELSE {}) \cup {"to"},
          fromTime |-> ZeroTime, toTime |-> ZeroTime]
    ELSE [ok |-> TRUE, error |-> "",
          parsed |-> (IF f # EmptyString THEN {"from"} ELSE {})
                        \cup (IF t # EmptyString THEN {"to"} ELSE {}),
          fromTime |-> IF f # EmptyString THEN ParseRFC3339(f) ELSE ZeroTime,
          toTime |-> IF t # EmptyString THEN ParseRFC3339(t) ELSE ZeroTime]

\* lines 84-87: the empty accumulators
EmptyAcc ==
    [totalTokens |-> 0, totalRequests |-> 0, modelMetricsMap |-> <<>>,
     timeseriesMap |-> <<>>]

\* lines 96-101: the detail is not skipped by the window
InWindow(detail, fromTime, toTime) ==
    /\ ~(~IsZero(fromTime) /\ Before(detail.Timestamp, fromTime))
    /\ ~(~IsZero(toTime) /\ After(detail.Timestamp, toTime))

\* lines 106-110: count the detail under its model name
AddToModel(mm, modelName, detail) ==
    LET m1 == IF modelName \in DOMAIN mm THEN mm
              ELSE mm @@ (modelName :> [Model |-> modelName, Tokens |-> 0, Requests |-> 0])
    IN  [m1 EXCEPT ![modelName] =
            [@ EXCEPT !.Requests = @ + 1, !.Tokens = @ + detail.TotalTokens]]

\* line 112: the key of the detail's bucket
BucketOf(detail) == Truncate(detail.Timestamp, Hour)

\* AddToBucket counting the request and not its tokens
AddToBucketNoTokens(ts, detail) ==
    LET bucket == BucketOf(detail)
        t1 == IF bucket \in DOMAIN ts THEN ts
              ELSE ts @@ (bucket :> [BucketStart |-> FormatRFC3339(bucket),
                                     Tokens |-> 0, Requests |-> 0])
    IN  [t1 EXCEPT ![bucket] = [@ EXCEPT !.Requests = @ + 1]]

\* lines 112-117: count the detail under its bucket
AddToBucket(ts, detail) ==
    LET bucket == BucketOf(detail)
        t1 == IF bucket \in DOMAIN ts THEN ts
              ELSE ts @@ (bucket :> [BucketStart |-> FormatRFC3339(bucket),
                                     Tokens |-> 0, Requests |-> 0])
    IN  [t1 EXCEPT ![bucket] =
            [@ EXCEPT !.Requests = @ + 1, !.Tokens = @ + detail.TotalTokens]]

\* lines 96-117: the body of the loop over the details
AddDetail(acc, modelName, detail, fromTime, toTime) ==
    IF ~InWindow(detail, fromTime, toTime) THEN acc
    ELSE [totalTokens |-> acc.totalTokens + detail.TotalTokens,
          totalRequests |-> acc.totalRequests + 1,
          modelMetricsMap |-> AddToModel(acc.modelMetricsMap, modelName, detail),
          timeseriesMap |-> AddToBucket(acc.timeseriesMap, detail)]

\* lines 95-118: for _, detail := range modelSnapshot.Details
RECURSIVE DetailsLoop(_, _, _, _, _)
DetailsLoop(acc, modelName, details, fromTime, toTime) ==
    IF details = <<>> THEN acc
    ELSE DetailsLoop(AddDetail(acc, modelName, Head(details), fromTime, toTime),
                     modelName, Tail(details), fromTime, toTime)

\* lines 90-119: for modelName, modelSnapshot := range apiSnapshot.Models,
\* visiting the keys in the given order
RECURSIVE ModelsLoop(_, _, _, _, _, _)
ModelsLoop(acc, models, order, filter, fromTime, toTime) ==
    IF order = <<>> THEN acc
    ELSE IF filter # EmptyString /\ filter # Head(order)
    THEN ModelsLoop(acc, models, Tail(order), filter, fromTime, toTime)
    ELSE ModelsLoop(DetailsLoop(acc, Head(order), models[Head(order)], fromTime, toTime),
                    models, Tail(order), filter, fromTime, toTime)

\* lines 89-120: for _, apiSnapshot := range snapshot.APIs, visiting the keys
\* in the given order, and the models of each API in that API's order
RECURSIVE APIsLoop(_, _, _, _, _, _, _)
APIsLoop(acc, apis, apiOrder, modelOrders, filter, fromTime, toTime) ==
    IF apiOrder = <<>> THEN acc
    ELSE APIsLoop(ModelsLoop(acc, apis[Head(apiOrder)], modelOrders[Head(apiOrder)],
                             filter, fromTime, toTime),
                  apis, Tail(apiOrder), modelOrders, filter, fromTime, toTime)

\* lines 131-133 and 139-141: append the values of a map in the order the range
\* loop visits its keys
AppendAll(map, order) == [i \in 1..Len(order) |-> map[order[i]]]

\* sort.Slice on a slice of fewer than 12 elements is an insertion sort: each
\* element moves left while it is less than the one before it
RECURSIVE InsertByModel(_, _)
InsertByModel(s, x) ==
    IF s = <<>> THEN <<x>>
    ELSE IF StrLess(x.Model, s[Len(s)].Model)
    THEN Append(InsertByModel(SubSeq(s, 1, Len(s) - 1), x), s[Len(s)])
    ELSE Append(s, x)

\* SortByModel without the sort
SortByModelSkipped(s) == s

\* lines 135-137
RECURSIVE SortByModel(_)
SortByModel(s) ==
    IF s = <<>> THEN <<>>
    ELSE InsertByModel(SortByModel(SubSeq(s, 1, Len(s) - 1)), s[Len(s)])

RECURSIVE InsertByBucketStart(_, _)
InsertByBucketStart(s, x) ==
    IF s = <<>> THEN <<x>>
    ELSE IF StrLess(x.BucketStart, s[Len(s)].BucketStart)
    THEN Append(InsertByBucketStart(SubSeq(s, 1, Len(s) - 1), x), s[Len(s)])
    ELSE Append(s, x)

\* lines 143-145
RECURSIVE SortByBucketStart(_)
SortByBucketStart(s) ==
    IF s = <<>> THEN <<>>
    ELSE InsertByBucketStart(SortByBucketStart(SubSeq(s, 1, Len(s) - 1)), s[Len(s)])

\* lines 122-145: the response, the maps ranged over in the given orders
Response(acc, mmOrder, tsOrder) ==
    [Totals |-> [Tokens |-> acc.totalTokens, Requests |-> acc.totalRequests],
     ByModel |-> SortByModel(AppendAll(acc.modelMetricsMap, mmOrder)),
     Timeseries |-> SortByBucketStart(AppendAll(acc.timeseriesMap, tsOrder))]

\* lines 82-129: the accumulators after the traversal
Traverse(apis, apiOrder, modelOrders, filter, window) ==
    APIsLoop(EmptyAcc, apis, apiOrder, modelOrders, filter,
             window.fromTime, window.toTime)

Init ==
    /\ snapshot \in Snapshots
    /\ pc = "idle"
    /\ fromStr = EmptyString
    /\ toStr = EmptyString
    /\ modelFilter = EmptyString
    /\ now \in Nows
    /\ status = 0
    /\ errorMsg = ""
    /\ resp = <<>>
    /\ parsed = {}
    /\ snapshotRead = FALSE

\* lines 53-152: one request handled from the query to c.JSON
GetMetrics ==
    /\ pc = "idle"
    /\ \E f \in FromStrs, t \in ToStrs, m \in ModelFilters :
        LET v == Validate(f, t, now)
        IN  /\ fromStr' = f
            /\ toStr' = t
            /\ modelFilter' = m
            /\ parsed' = v.parsed
            /\ errorMsg' = v.error
            /\ IF ~v.ok
               THEN /\ status' = 400
                    /\ resp' = <<>>
                    /\ snapshotRead' = FALSE
               ELSE /\ status' = 200
                    /\ snapshotRead' = TRUE
                    /\ \E apiOrder \in Perms(DOMAIN snapshot) :
                       \E modelOrders \in ModelOrders(snapshot) :
                        LET acc == Traverse(snapshot, apiOrder, modelOrders, m, v)
                        IN  \E mmOrder \in Perms(DOMAIN acc.modelMetricsMap) :
                            \E tsOrder \in Perms(DOMAIN acc.timeseriesMap) :
                                resp' = <<Response(acc, mmOrder, tsOrder)>>
    /\ pc' = "done"
    /\ UNCHANGED <<snapshot, now>>

Next == GetMetrics

Spec == Init /\ [][Next]_vars

(***************************************************************************)
(* What the claims are stated in: the details of the snapshot, the window  *)
(* the query asks for, the report.                                         *)
(***************************************************************************)
\* one <<api, model, index>> for every request detail of the snapshot
DetailRefs ==
    UNION {UNION {{<<p, m, i>> : i \in 1..Len(snapshot[p][m])} :
                  m \in DOMAIN snapshot[p]} : p \in DOMAIN snapshot}

DetailAt(r) == snapshot[r[1]][r[2]][r[3]]

RECURSIVE TokensOf(_)
TokensOf(refs) ==
    IF refs = {} THEN 0
    ELSE LET r == CHOOSE x \in refs : TRUE
         IN  DetailAt(r).TotalTokens + TokensOf(refs \ {r})

RECURSIVE SumTokens(_)
SumTokens(s) == IF s = <<>> THEN 0 ELSE Head(s).Tokens + SumTokens(Tail(s))

RECURSIVE SumRequests(_)
SumRequests(s) == IF s = <<>> THEN 0 ELSE Head(s).Requests + SumRequests(Tail(s))

Answered == pc = "done" /\ status = 200

Report == resp[1]

Supplied(s) == s # EmptyString

\* the details the query asks for: the model filter, and the bounds supplied,
\* both inclusive; with no bound supplied, the last 24 hours
Matching ==
    {r \in DetailRefs :
        /\ modelFilter = EmptyString \/ modelFilter = r[2]
        /\ IF ~Supplied(fromStr) /\ ~Supplied(toStr)
           THEN /\ DetailAt(r).Timestamp.inst >= now.inst - Day
                /\ DetailAt(r).Timestamp.inst <= now.inst
           ELSE /\ Supplied(fromStr) =>
                      DetailAt(r).Timestamp.inst >= ParseRFC3339(fromStr).inst
                /\ Supplied(toStr) =>
                      DetailAt(r).Timestamp.inst <= ParseRFC3339(toStr).inst}

\* every report the handler may write for a query on the snapshot, over the
\* orders in which the maps may be ranged over
ReportsFor(f, t, m) ==
    LET v == Validate(f, t, now)
    IN  UNION {LET acc == Traverse(snapshot, o[1], o[2], m, v)
               IN  {Response(acc, mmOrder, tsOrder) :
                        mmOrder \in Perms(DOMAIN acc.modelMetricsMap),
                        tsOrder \in Perms(DOMAIN acc.timeseriesMap)} :
               o \in Perms(DOMAIN snapshot) \X ModelOrders(snapshot)}

(***************************************************************************)
(* The claims                                                              *)
(***************************************************************************)
\* C1: in every report, totals.requests is the sum of the requests of the
\* by_model entries and of the timeseries entries, and totals.tokens the sum of
\* their tokens.
C1_SumConsistency ==
    Answered =>
        /\ Report.Totals.Requests = SumRequests(Report.ByModel)
        /\ Report.Totals.Requests = SumRequests(Report.Timeseries)
        /\ Report.Totals.Tokens = SumTokens(Report.ByModel)
        /\ Report.Totals.Tokens = SumTokens(Report.Timeseries)

\* a report of three requests under two models and in two buckets
C1_Witness ==
    /\ Answered
    /\ Report.Totals.Requests = 3
    /\ Report.Totals.Tokens > 0
    /\ Len(Report.ByModel) = 2
    /\ Len(Report.Timeseries) >= 2

\* C2: with from or to supplied and well formed, a detail is counted exactly
\* when it passes the model filter, is not before a supplied from and not after
\* a supplied to, whatever the value of the bound; totals.requests is the
\* number of such details and totals.tokens the sum of their tokens.
C2_SuppliedBoundsEnforced ==
    (Answered /\ (Supplied(fromStr) \/ Supplied(toStr))) =>
        /\ Report.Totals.Requests = Cardinality(Matching)
        /\ Report.Totals.Tokens = TokensOf(Matching)

\* C3: with neither from nor to, the report is one the handler writes for
\* from = now - 24h and to = now on the same snapshot and filter; with one of
\* them supplied, every detail that passes the filter and the supplied bound is
\* counted: the other side has no bound.
C3_DefaultWindow ==
    /\ (Answered /\ ~Supplied(fromStr) /\ ~Supplied(toStr)) =>
          Report \in ReportsFor(FormatRFC3339(Add(now, 0 - 24 * Hour)),
                                FormatRFC3339(now), modelFilter)
    /\ (Answered /\ (Supplied(fromStr) # Supplied(toStr))) =>
          Report.Totals.Requests >= Cardinality(Matching)

\* a call with no bound on a snapshot with a detail older than 24 hours, which
\* is left out, and one within them, which is counted
C3_Witness ==
    /\ Answered
    /\ ~Supplied(fromStr)
    /\ ~Supplied(toStr)
    /\ modelFilter = EmptyString
    /\ Report.Totals.Requests >= 1
    /\ Report.Totals.Requests < Cardinality(DetailRefs)
    /\ \E r \in DetailRefs : DetailAt(r).Timestamp.inst < now.inst - 12 * Hour
                             /\ r \in Matching

\* C4: a supplied from or to that does not parse ends the call with status 400
\* and the error naming the parameter, with no report, before the snapshot is
\* read; a malformed from is reported before to is parsed.
C4_ValidationError ==
    /\ (pc = "done" /\ Supplied(fromStr) /\ ~ParseOK(fromStr)) =>
          /\ status = 400
          /\ errorMsg = "invalid 'from' timestamp format"
          /\ resp = <<>>
          /\ ~snapshotRead
          /\ "to" \notin parsed
    /\ (pc = "done" /\ Supplied(toStr) /\ ~ParseOK(toStr)
            /\ ~(Supplied(fromStr) /\ ~ParseOK(fromStr))) =>
          /\ status = 400
          /\ errorMsg = "invalid 'to' timestamp format"
          /\ resp = <<>>
          /\ ~snapshotRead

\* a malformed to after a well-formed from, on a snapshot that holds details
C4_Witness ==
    /\ pc = "done"
    /\ Supplied(fromStr)
    /\ ParseOK(fromStr)
    /\ toStr = NotADate
    /\ status = 400
    /\ DetailRefs # {}

\* the start of the calendar hour of t in t's own location, as Format renders it
CalendarHourStart(t) ==
    LET local == t.inst + LocOffset(t.loc)
    IN  <<local \div Day, (local % Day) \div Hour, 0>> \o ZoneSuffix(LocOffset(t.loc))

\* C5: every bucket_start has zero minutes, and every matching detail is
\* counted in the bucket whose bucket_start is the start of the detail's
\* calendar hour in the detail's own offset, together with the other matching
\* details of that calendar hour.
C5_CalendarHourBuckets ==
    Answered =>
        /\ \A i \in 1..Len(Report.Timeseries) : Report.Timeseries[i].BucketStart[3] = 0
        /\ \A r \in Matching :
              \E i \in 1..Len(Report.Timeseries) :
                  /\ Report.Timeseries[i].BucketStart =
                        CalendarHourStart(DetailAt(r).Timestamp)
                  /\ Report.Timeseries[i].Requests >=
                        Cardinality({q \in Matching :
                            CalendarHourStart(DetailAt(q).Timestamp) =
                                CalendarHourStart(DetailAt(r).Timestamp)})

\* C6: the timeseries of every report is strictly ascending by bucket_start.
C6_TimeseriesStrictlyAscending ==
    Answered =>
        \A i \in 1..Len(Report.Timeseries) - 1 :
            StrLess(Report.Timeseries[i].BucketStart, Report.Timeseries[i + 1].BucketStart)

\* C7: the by_model of every report is strictly ascending by model name.
C7_ByModelStrictlyAscending ==
    Answered =>
        \A i \in 1..Len(Report.ByModel) - 1 :
            StrLess(Report.ByModel[i].Model, Report.ByModel[i + 1].Model)

\* a report with an entry for each of two models
C7_Witness ==
    /\ Answered
    /\ Len(Report.ByModel) = 2
    /\ Report.ByModel[1].Model = claude
    /\ Report.ByModel[2].Model = gpt

\* C8: by_model has exactly one entry for each model name with a matching
\* detail under any provider, with the count and the token sum of the matching
\* details of that name over all providers.
C8_ByModelMergesProviders ==
    Answered =>
        /\ {Report.ByModel[i].Model : i \in 1..Len(Report.ByModel)} = {r[2] : r \in Matching}
        /\ Len(Report.ByModel) = Cardinality({r[2] : r \in Matching})
        /\ \A i \in 1..Len(Report.ByModel) :
              LET of == {r \in Matching : r[2] = Report.ByModel[i].Model}
              IN  /\ Report.ByModel[i].Requests = Cardinality(of)
                  /\ Report.ByModel[i].Tokens = TokensOf(of)

\* C9: a call whose supplied bounds are well formed is answered with a report,
\* the empty one when no detail matches.
C9_EmptyReportWhenNothingMatches ==
    (pc = "done" /\ (Supplied(fromStr) => ParseOK(fromStr))
                 /\ (Supplied(toStr) => ParseOK(toStr))) =>
        /\ status = 200
        /\ Len(resp) = 1
        /\ Matching = {} =>
              Report = [Totals |-> [Tokens |-> 0, Requests |-> 0],
                        ByModel |-> <<>>, Timeseries |-> <<>>]

\* C10: for a snapshot, a filter and bounds, every order of iteration of the
\* maps yields the same report, entry for entry and position for position.
C10_OrderIndependent ==
    Answered => \A r \in ReportsFor(fromStr, toStr, modelFilter) : r = Report

====
